---- MODULE Spec2Model ----
(***************************************************************************)
(* SQLExecutor of pg_mcp/services/sql_executor.py: the retry loop of       *)
(* execute, one attempt (_execute_once) with its scoped pool acquisition   *)
(* and read-only transaction, the session hardening of                     *)
(* _set_session_params, row limiting and result serialization.             *)
(*                                                                         *)
(* Each caller runs execute as a coroutine; a step of the model is the     *)
(* code between two awaits of one coroutine.                               *)
(***************************************************************************)
EXTENDS Integers, Sequences, FiniteSets, TLC

\* ---------------------------------------------------------------- bounds
NumCalls == 2          \* callers that may run execute concurrently
MaxInvocations == 2    \* successive execute calls of the lone caller
MaxRetriesBound == 3   \* max_retries ranges over 0..MaxRetriesBound
MaxDelay == 2          \* retry_delay ranges over 1..MaxDelay
MaxFactor == 2         \* backoff_factor ranges over 1..MaxFactor
MaxRecords == 3        \* a query returns 0..MaxRecords rows
MaxRowsArg == 2        \* max_rows arguments range over None, 0..MaxRowsArg
PoolSize == 1          \* connections of the pool
MaxDepth == 2          \* nesting depth of the values a query returns

Calls == 1..NumCalls

\* ------------------------------------------------------- error codes
\* Transient PostgreSQL error codes that warrant retry
RETRYABLE_ERROR_CODES ==
    {"08000", "08003", "08006", "08001", "08004", "40001", "40P01",
     "53300", "57P01", "57P02", "57P03"}

\* sqlstate values the database raises in the model: a transient one
\* (serialization failure) and a permanent one (syntax error)
ErrorCodes == {"40001", "42601"}

\* ------------------------------------------------------- characters
AlnumChars == {"a", "b", "r", "o", "1"}

\* str.isalnum on one character
IsAlnum(c) == c \in AlnumChars

\* the search_path check letting the semicolon through
SearchPathCharOkLax(c) == IsAlnum(c) \/ c \in {"_", ",", " ", ";"}

\* all(c.isalnum() or c in ("_", ",", " ") for c in search_path)
SearchPathCharOk(c) == IsAlnum(c) \/ c \in {"_", ",", " "}

ValidSearchPath(s) == \A i \in 1..Len(s) : SearchPathCharOk(s[i])

\* the role check letting the space through
RoleCharOkLax(c) == IsAlnum(c) \/ c \in {"_", " "}

\* all(c.isalnum() or c == "_" for c in readonly_role)
RoleCharOk(c) == IsAlnum(c) \/ c = "_"

ValidRole(s) == \A i \in 1..Len(s) : RoleCharOk(s[i])

\* configured search paths: a well-formed one, one with a semicolon, one
\* with a quote
SearchPaths ==
    { <<"a", ",", " ", "b", "_">>, <<"a", ";">>, <<"a", "'", "b">> }

\* configured roles: none (empty, falsy), a well-formed one, malformed ones
Roles == { <<>>, <<"r", "o", "_", "1">>, <<"r", " ", "o">> }

\* ------------------------------------------------------- optional ints
\* None is <<>>, the integer n is <<n>>
None == <<>>

Some(n) == <<n>>

\* Python truthiness of an optional number: None and 0 are falsy
Truthy(o) == o # None /\ o[1] # 0

\* `x or default`
OrDefault(o, d) == IF Truthy(o) THEN o[1] ELSE d

\* ------------------------------------------------------- values
\* database-native cell values, tagged by type: v holds numbers, s holds
\* text, items the elements of a container, keys the keys of a mapping
Scalar(t, v, s) == [t |-> t, v |-> v, s |-> s, items |-> <<>>, keys |-> <<>>]

NoneV == Scalar("none", <<>>, <<>>)

StrV(s) == Scalar("str", <<>>, s)

IntV(n) == Scalar("int", <<n>>, <<>>)

FloatV(n) == Scalar("float", <<n>>, <<>>)

BoolV(n) == Scalar("bool", <<n>>, <<>>)

\* decimal.Decimal, its digits in v
DecimalV(n) == Scalar("decimal", <<n>>, <<>>)

\* uuid.UUID, its canonical text in s
UuidV(s) == Scalar("uuid", <<>>, s)

\* datetime, date or time (kind), its ISO-8601 text in s
TemporalV(kind, s) == Scalar(kind, <<>>, s)

\* datetime.timedelta, its str() text in s
TimedeltaV(s) == Scalar("timedelta", <<>>, s)

\* bytes, one number 0..255 per byte
BytesV(b) == Scalar("bytes", b, <<>>)

ListV(items) == [t |-> "list", v |-> <<>>, s |-> <<>>, items |-> items, keys |-> <<>>]

TupleV(items) == [t |-> "tuple", v |-> <<>>, s |-> <<>>, items |-> items, keys |-> <<>>]

\* a mapping: the i-th key maps to the i-th item
DictV(keys, items) == [t |-> "dict", v |-> <<>>, s |-> <<>>, items |-> items, keys |-> keys]

HexDigits == <<"0", "1", "2", "3", "4", "5", "6", "7",
               "8", "9", "a", "b", "c", "d", "e", "f">>

\* bytes.hex(): two lowercase digits per byte
Hex(b) ==
    [i \in 1..(2 * Len(b)) |->
        IF i % 2 = 1 THEN HexDigits[(b[(i + 1) \div 2] \div 16) + 1]
                     ELSE HexDigits[(b[i \div 2] % 16) + 1]]

\* the "other types" branch returning str(value) for numbers
RECURSIVE serialize_valueStringify(_)
serialize_valueStringify(x) ==
    CASE x.t = "none" -> x
      [] x.t \in {"datetime", "date", "time"} -> StrV(x.s)
      [] x.t = "timedelta" -> StrV(x.s)
      [] x.t = "decimal" -> FloatV(x.v[1])
      [] x.t = "uuid" -> StrV(x.s)
      [] x.t = "bytes" -> StrV(Hex(x.v))
      [] x.t \in {"list", "tuple"} ->
           ListV([i \in 1..Len(x.items) |-> serialize_valueStringify(x.items[i])])
      [] x.t = "dict" ->
           DictV(x.keys, [i \in 1..Len(x.items) |-> serialize_valueStringify(x.items[i])])
      [] x.t \in {"int", "float", "bool"} -> StrV(<<"1">>)
      [] OTHER -> x

\* serialize_value, lines 317-359
RECURSIVE serialize_value(_)
serialize_value(x) ==
    CASE x.t = "none" -> x
      [] x.t \in {"datetime", "date", "time"} -> StrV(x.s)
      [] x.t = "timedelta" -> StrV(x.s)
      [] x.t = "decimal" -> FloatV(x.v[1])
      [] x.t = "uuid" -> StrV(x.s)
      [] x.t = "bytes" -> StrV(Hex(x.v))
      [] x.t \in {"list", "tuple"} ->
           ListV([i \in 1..Len(x.items) |-> serialize_value(x.items[i])])
      [] x.t = "dict" ->
           DictV(x.keys, [i \in 1..Len(x.items) |-> serialize_value(x.items[i])])
      [] OTHER -> x

\* one row is a mapping column -> value
serialize_row(row) == [k \in DOMAIN row |-> serialize_value(row[k])]

\* _serialize_results
serialize_results(results) ==
    [i \in 1..Len(results) |-> serialize_row(results[i])]

\* rows the database may return: row i carries its position in column id
\* and a Decimal or an int in column c
RowAt(i, dec) == [id |-> IntV(i), c |-> IF dec THEN DecimalV(i) ELSE IntV(i)]

ResultSets(maxn) ==
    UNION { { [i \in 1..n |-> RowAt(i, dec)] : dec \in BOOLEAN } : n \in 0..maxn }

\* JSON-compatible scalars and database-native scalars of the model
JSONScalars == { NoneV, StrV(<<"a">>), IntV(1), FloatV(2), BoolV(1) }

NativeScalars ==
    { DecimalV(3), UuidV(<<"u">>), BytesV(<<222, 173>>),
      TemporalV("datetime", <<"T">>), TemporalV("date", <<"D">>),
      TimedeltaV(<<"d">>) }

\* values nested to depth d over the scalars of base: lists (and tuples,
\* when asked for) of one value or two scalars, mappings of one key
RECURSIVE Values(_, _, _)
Values(d, base, tuples) ==
    IF d = 0 THEN base
    ELSE LET sub == Values(d - 1, base, tuples)
         IN sub \cup { ListV(<<>>), DictV(<<>>, <<>>) }
                \cup { ListV(<<a>>) : a \in sub }
                \cup { ListV(<<a, b>>) : a \in base, b \in base }
                \cup { DictV(<<"k">>, <<a>>) : a \in sub }
                \cup (IF tuples THEN { TupleV(<<a>>) : a \in sub } ELSE {})

\* a record whose column c holds the value
ValueRow(val) == [id |-> IntV(1), c |-> val]

\* Row limiting of _execute_once: records[:max_rows] when there are more
LimitTruncates(n, m) == n > m

limit_rows(records, m) ==
    IF LimitTruncates(Len(records), m) THEN SubSeq(records, 1, m) ELSE records


\* ------------------------------------------------------- exceptions
\* what one attempt (_execute_once) ends with: a return value or an
\* exception; `at` is the place that raised it
NoExc == [kind |-> "None", code |-> "None", at |-> "None",
          rows |-> <<>>, total_count |-> 0]

Exc(kind, code, at) == [NoExc EXCEPT !.kind = kind, !.code = code, !.at = at]

Returned(rows, total) ==
    [NoExc EXCEPT !.kind = "Return", !.rows = rows, !.total_count = total]

\* what execute ends with
NoOutcome == [kind |-> "none", rows |-> None, total_count |-> 0,
              attempts |-> 0, error_code |-> "None", why |-> "none"]

\* ------------------------------------------------------- state
VARIABLES
    config,      \* the executor's configuration (__init__)
    env,         \* what callers pass and what the database may answer
    budget,      \* execute calls each caller still makes
    free,        \* connections in the pool
    pc,          \* where each caller's coroutine is suspended
    requested,   \* the max_rows argument of the running call
    max_rows,    \* execute's local max_rows
    attempt,     \* execute's loop variable
    delay,       \* execute's local delay
    last_error,  \* execute's local last_error (its sqlstate)
    held,        \* the caller holds a pooled connection
    stmts,       \* statements sent on the connection in the current attempt
    pending,     \* the return value or exception leaving _execute_once
    fetched,     \* the records connection.fetch returned
    sleeps,      \* delays of the asyncio.sleep calls of the running call
    nattempts,   \* _execute_once calls of the running call
    outcome      \* what the call returned or raised

locals == <<requested, max_rows, attempt, delay, last_error>>
conn == <<held, stmts, pending, fetched>>
hist == <<sleeps, nattempts, outcome>>
vars == <<config, env, budget, free, pc, locals, conn, hist>>

\* ------------------------------------------------------- construction
RetryPolicies(maxr, maxd, maxf) ==
    [max_retries : 0..maxr, retry_delay : 1..maxd, backoff_factor : 1..maxf]

Configs(retry, paths, roles, rows) ==
    { [max_retries |-> r.max_retries, retry_delay |-> r.retry_delay,
       backoff_factor |-> r.backoff_factor, safe_search_path |-> sp,
       readonly_role |-> ro, max_rows |-> m] :
         r \in retry, sp \in paths, ro \in roles, m \in rows }

MaxRowsArgs == {None} \cup { Some(n) : n \in 0..MaxRowsArg }

InitCalls ==
    /\ free = PoolSize
    /\ pc = [p \in Calls |-> "idle"]
    /\ requested = [p \in Calls |-> None]
    /\ max_rows = [p \in Calls |-> 0]
    /\ attempt = [p \in Calls |-> 0]
    /\ delay = [p \in Calls |-> 0]
    /\ last_error = [p \in Calls |-> "None"]
    /\ held = [p \in Calls |-> FALSE]
    /\ stmts = [p \in Calls |-> <<>>]
    /\ pending = [p \in Calls |-> NoExc]
    /\ fetched = [p \in Calls |-> <<>>]
    /\ sleeps = [p \in Calls |-> <<>>]
    /\ nattempts = [p \in Calls |-> 0]
    /\ outcome = [p \in Calls |-> NoOutcome]

\* one caller, every configuration and every input
InitSolo ==
    /\ config \in Configs(RetryPolicies(MaxRetriesBound, MaxDelay, MaxFactor),
                          SearchPaths, Roles, {MaxRowsArg})
    /\ env = [args |-> MaxRowsArgs, results |-> ResultSets(MaxRecords),
              codes |-> ErrorCodes]
    /\ budget = [p \in Calls |-> IF p = 1 THEN MaxInvocations ELSE 0]
    /\ InitCalls

\* security settings of the shared scenario: the well-formed path with
\* each role, and a malformed path
SharedSecurity ==
    { <<sp, ro>> \in SearchPaths \X Roles :
        ValidSearchPath(sp) \/ (sp = <<"a", ";">> /\ ro = <<>>) }

\* the configuration and the inputs of the shared scenarios
SharedSetup ==
    /\ config \in { c \in Configs([max_retries : {1}, retry_delay : {1},
                                   backoff_factor : {2}],
                                  SearchPaths, Roles, {MaxRowsArg}) :
                      <<c.safe_search_path, c.readonly_role>> \in SharedSecurity }
    /\ env = [args |-> {None}, results |-> {[i \in 1..MaxRecords |-> RowAt(i, TRUE)]},
              codes |-> ErrorCodes]

\* every caller calls execute once on the shared pool
InitShared ==
    /\ SharedSetup
    /\ budget = [p \in Calls |-> 1]
    /\ InitCalls

\* two callers call execute once on the shared pool
InitPair ==
    /\ SharedSetup
    /\ budget = [p \in Calls |-> IF p <= 2 THEN 1 ELSE 0]
    /\ InitCalls

\* one call whose query returns one record holding any value, pure JSON or
\* database-native, nested to MaxDepth
InitSerialize ==
    /\ config \in Configs([max_retries : {1}, retry_delay : {1},
                           backoff_factor : {2}],
                          {<<"a", ",", " ", "b", "_">>}, {<<"r", "o", "_", "1">>},
                          {MaxRowsArg})
    /\ env = [args |-> {None},
              results |-> { <<ValueRow(val)>> :
                              val \in Values(MaxDepth, JSONScalars \cup NativeScalars, TRUE) },
              codes |-> ErrorCodes]
    /\ budget = [p \in Calls |-> IF p = 1 THEN 1 ELSE 0]
    /\ InitCalls

Init == InitSolo \/ InitShared

\* ------------------------------------------------------- execute
\* execute, lines 123-132: defaults, the locals, the first loop iteration
\* up to the await of pool.acquire()
Execute(p, mr) ==
    /\ pc[p] = "idle"
    /\ budget[p] > 0
    /\ budget' = [budget EXCEPT ![p] = @ - 1]
    /\ requested' = [requested EXCEPT ![p] = mr]
    /\ max_rows' = [max_rows EXCEPT ![p] = OrDefault(mr, config.max_rows)]
    /\ last_error' = [last_error EXCEPT ![p] = "None"]
    /\ delay' = [delay EXCEPT ![p] = config.retry_delay]
    /\ attempt' = [attempt EXCEPT ![p] = 0]
    /\ nattempts' = [nattempts EXCEPT ![p] = 1]
    /\ sleeps' = [sleeps EXCEPT ![p] = <<>>]
    /\ outcome' = [outcome EXCEPT ![p] = NoOutcome]
    /\ pc' = [pc EXCEPT ![p] = "acquire"]
    /\ UNCHANGED <<config, env, free, conn>>

\* an exception leaves the body of _execute_once
Raise(p, e) ==
    /\ pending' = [pending EXCEPT ![p] = e]
    /\ pc' = [pc EXCEPT ![p] = "unwind"]

\* a statement goes out on p's connection
Send(p, s) == stmts' = [stmts EXCEPT ![p] = Append(@, s)]

\* an acquisition that does not wait for a free connection
AcquireNoWait(p) ==
    /\ pc[p] = "acquire"
    /\ free' = free - 1
    /\ held' = [held EXCEPT ![p] = TRUE]
    /\ stmts' = [stmts EXCEPT ![p] = <<>>]
    /\ pc' = [pc EXCEPT ![p] = "begin"]
    /\ UNCHANGED <<config, env, budget, locals, pending, fetched, hist>>

\* pool.acquire(): suspended until the pool has a connection
Acquire(p) ==
    /\ pc[p] = "acquire"
    /\ free > 0
    /\ free' = free - 1
    /\ held' = [held EXCEPT ![p] = TRUE]
    /\ stmts' = [stmts EXCEPT ![p] = <<>>]
    /\ pc' = [pc EXCEPT ![p] = "begin"]
    /\ UNCHANGED <<config, env, budget, locals, pending, fetched, hist>>

\* connection.transaction(readonly=True).__aenter__
Begin(p) ==
    /\ pc[p] = "begin"
    /\ Send(p, "BEGIN READ ONLY")
    /\ \/ /\ pc' = [pc EXCEPT ![p] = "set_timeout"]
          /\ UNCHANGED pending
       \/ \E code \in env.codes : Raise(p, Exc("PostgresError", code, "begin"))
    /\ UNCHANGED <<config, env, budget, free, locals, held, fetched, hist>>

\* pool.acquire() raises: the pool hands out a holder, establishing its
\* connection fails
AcquireFail(p) ==
    /\ pc[p] = "acquire"
    /\ free > 0
    /\ stmts' = [stmts EXCEPT ![p] = <<>>]
    /\ \E code \in env.codes : Raise(p, Exc("PostgresError", code, "acquire"))
    /\ UNCHANGED <<config, env, budget, free, locals, held, fetched, hist>>

\* ------------------------------------------------------- _set_session_params
\* except asyncpg.PostgresError, lines 279-288: the failure of a session
\* command leaves as DatabaseError with error_code among its details
WrapSessionFailure(code, at) == Exc("DatabaseError", code, at)

\* lines 262-265 and 273-276: the DatabaseError of a rejected setting
Rejected(at) == Exc("DatabaseError", "None", at)

\* the role switch skipped
RoleNeverConfigured(role) == FALSE

\* line 269: `if self.security_config.readonly_role`
RoleConfigured(role) == role # <<>>

\* lines 254-265: SET statement_timeout, then the search_path check
SetStatementTimeout(p) ==
    /\ pc[p] = "set_timeout"
    /\ Send(p, "SET statement_timeout")
    /\ \/ /\ ValidSearchPath(config.safe_search_path)
          /\ pc' = [pc EXCEPT ![p] = "set_search_path"]
          /\ UNCHANGED pending
       \/ /\ ~ValidSearchPath(config.safe_search_path)
          /\ Raise(p, Rejected("search_path"))
       \/ \E code \in env.codes : Raise(p, WrapSessionFailure(code, "set_timeout"))
    /\ UNCHANGED <<config, env, budget, free, locals, held, fetched, hist>>

\* lines 266-276: SET search_path, then the role check; without a role
\* _set_session_params returns and _execute_once goes on to the query
SetSearchPath(p) ==
    /\ pc[p] = "set_search_path"
    /\ Send(p, "SET search_path")
    /\ \/ /\ ~RoleConfigured(config.readonly_role)
          /\ pc' = [pc EXCEPT ![p] = "fetch"]
          /\ UNCHANGED pending
       \/ /\ RoleConfigured(config.readonly_role)
          /\ ValidRole(config.readonly_role)
          /\ pc' = [pc EXCEPT ![p] = "set_role"]
          /\ UNCHANGED pending
       \/ /\ RoleConfigured(config.readonly_role)
          /\ ~ValidRole(config.readonly_role)
          /\ Raise(p, Rejected("readonly_role"))
       \/ \E code \in env.codes : Raise(p, WrapSessionFailure(code, "set_search_path"))
    /\ UNCHANGED <<config, env, budget, free, locals, held, fetched, hist>>

\* line 277: SET ROLE
SetRole(p) ==
    /\ pc[p] = "set_role"
    /\ Send(p, "SET ROLE")
    /\ \/ /\ pc' = [pc EXCEPT ![p] = "fetch"]
          /\ UNCHANGED pending
       \/ \E code \in env.codes : Raise(p, WrapSessionFailure(code, "set_role"))
    /\ UNCHANGED <<config, env, budget, free, locals, held, fetched, hist>>

\* ------------------------------------------------------- _execute_once
\* the count taken after the truncation
ExecuteOnceResultCountAfter(records, m) ==
    Returned(serialize_results(limit_rows(records, m)), Len(limit_rows(records, m)))

\* lines 214-227: count, limit, convert, serialize
ExecuteOnceResult(records, m) ==
    Returned(serialize_results(limit_rows(records, m)), Len(records))

\* lines 200-227: the query under asyncio.wait_for, then the result
Fetch(p) ==
    /\ pc[p] = "fetch"
    /\ Send(p, "QUERY")
    /\ \/ \E r \in env.results :
            /\ fetched' = [fetched EXCEPT ![p] = r]
            /\ pending' = [pending EXCEPT ![p] = ExecuteOnceResult(r, max_rows[p])]
            /\ pc' = [pc EXCEPT ![p] = "unwind"]
       \/ /\ Raise(p, Exc("ExecutionTimeoutError", "None", "fetch"))
          /\ UNCHANGED fetched
       \/ /\ \E code \in env.codes : Raise(p, Exc("PostgresError", code, "fetch"))
          /\ UNCHANGED fetched
       \/ /\ Raise(p, Exc("Exception", "None", "fetch"))
          /\ UNCHANGED fetched
    /\ UNCHANGED <<config, env, budget, free, locals, held, hist>>

\* ------------------------------------------------------- execute, handlers
\* line 139 without `attempt < self.max_retries`
ShouldRetryUnbounded(code, att, mr) == code \in RETRYABLE_ERROR_CODES

\* line 139 without the look at the error code
ShouldRetryAnyCode(code, att, mr) == att < mr

\* line 139 with the bound off by one
ShouldRetryEarly(code, att, mr) == code \in RETRYABLE_ERROR_CODES /\ att + 1 < mr

\* line 139
ShouldRetry(code, att, mr) == code \in RETRYABLE_ERROR_CODES /\ att < mr

\* every exception but the timeout handled like a transient database error
RetriesAnyError(e, att, mr) ==
    \/ e.kind = "PostgresError" /\ e.code \in RETRYABLE_ERROR_CODES /\ att < mr
    \/ e.kind \in {"Exception", "DatabaseError"} /\ att < mr

\* the timeout handled like a transient database error
RetriesTimeout(e, att, mr) ==
    \/ e.kind = "PostgresError" /\ e.code \in RETRYABLE_ERROR_CODES /\ att < mr
    \/ e.kind = "ExecutionTimeoutError" /\ att < mr

\* the except clause that takes the exception and whether it continues
Retries(e, att, mr) == e.kind = "PostgresError" /\ ShouldRetry(e.code, att, mr)

\* the loop index reported as the attempt count
TerminalAttemptIndex(e, att) ==
    CASE e.kind = "Return" ->
           [NoOutcome EXCEPT !.kind = "ok", !.rows = Some(e.rows),
                             !.total_count = e.total_count, !.why = "return"]
      [] e.kind = "ExecutionTimeoutError" ->
           [NoOutcome EXCEPT !.kind = "ExecutionTimeoutError", !.why = "timeout"]
      [] e.kind = "PostgresError" ->
           [NoOutcome EXCEPT !.kind = "DatabaseError", !.error_code = e.code,
                             !.attempts = att, !.why = "postgres"]
      [] OTHER ->
           [NoOutcome EXCEPT !.kind = "DatabaseError", !.why = "unexpected"]

\* a success after a retry reported as the failure of the earlier attempt
TerminalStaleError(e, att) ==
    CASE e.kind = "Return" /\ att = 0 ->
           [NoOutcome EXCEPT !.kind = "ok", !.rows = Some(e.rows),
                             !.total_count = e.total_count, !.why = "return"]
      [] e.kind = "ExecutionTimeoutError" ->
           [NoOutcome EXCEPT !.kind = "ExecutionTimeoutError", !.why = "timeout"]
      [] e.kind \in {"PostgresError", "Return"} ->
           [NoOutcome EXCEPT !.kind = "DatabaseError", !.error_code = e.code,
                             !.attempts = att + 1, !.why = "postgres"]
      [] OTHER ->
           [NoOutcome EXCEPT !.kind = "DatabaseError", !.why = "unexpected"]

\* execute without the handler of lines 158-166: the exception leaves as is
TerminalUnwrapped(e, att) ==
    CASE e.kind = "Return" ->
           [NoOutcome EXCEPT !.kind = "ok", !.rows = Some(e.rows),
                             !.total_count = e.total_count, !.why = "return"]
      [] e.kind = "PostgresError" ->
           [NoOutcome EXCEPT !.kind = "DatabaseError", !.error_code = e.code,
                             !.attempts = att + 1, !.why = "postgres"]
      [] OTHER ->
           [NoOutcome EXCEPT !.kind = e.kind, !.why = "propagated"]

\* lines 132-166: what execute returns or raises when it does not retry
Terminal(e, att) ==
    CASE e.kind = "Return" ->
           [NoOutcome EXCEPT !.kind = "ok", !.rows = Some(e.rows),
                             !.total_count = e.total_count, !.why = "return"]
      [] e.kind = "ExecutionTimeoutError" ->
           [NoOutcome EXCEPT !.kind = "ExecutionTimeoutError", !.why = "timeout"]
      [] e.kind = "PostgresError" ->
           [NoOutcome EXCEPT !.kind = "DatabaseError", !.error_code = e.code,
                             !.attempts = att + 1, !.why = "postgres"]
      [] OTHER ->
           [NoOutcome EXCEPT !.kind = "DatabaseError", !.why = "unexpected"]

\* lines 169-174: the fallback after the loop
Fallback(last, mr) ==
    IF last # "None"
    THEN [NoOutcome EXCEPT !.kind = "DatabaseError", !.attempts = mr + 1,
                           !.why = "fallback"]
    ELSE [NoOutcome EXCEPT !.kind = "DatabaseError", !.why = "fallback_generic"]

\* the connection released only on the success path
ReleasesOnReturnOnly(e) == e.kind = "Return"

\* the connection kept across the backoff sleep
ReleasesUnlessRetrying(e) ==
    ~(e.kind = "PostgresError" /\ e.code \in RETRYABLE_ERROR_CODES)

\* `async with` of lines 192-195: the connection goes back to the pool
\* however the body is left
ReleasesOnExit(e) == TRUE

\* the exit of the `async with`, then execute's handler for what came out
Unwind(p) ==
    /\ pc[p] = "unwind"
    /\ IF held[p] /\ ReleasesOnExit(pending[p])
       THEN /\ free' = free + 1
            /\ held' = [held EXCEPT ![p] = FALSE]
       ELSE UNCHANGED <<free, held>>
    /\ IF Retries(pending[p], attempt[p], config.max_retries)
       THEN /\ last_error' = [last_error EXCEPT ![p] = pending[p].code]
            /\ sleeps' = [sleeps EXCEPT ![p] = Append(@, delay[p])]
            /\ pc' = [pc EXCEPT ![p] = "sleep"]
            /\ UNCHANGED outcome
       ELSE /\ outcome' = [outcome EXCEPT ![p] = Terminal(pending[p], attempt[p])]
            /\ pc' = [pc EXCEPT ![p] = "done"]
            /\ UNCHANGED <<last_error, sleeps>>
    /\ UNCHANGED <<config, env, budget, requested, max_rows, attempt, delay,
                   stmts, pending, fetched, nattempts>>

\* the delay grown by addition
NextDelayAdd(d, f) == d + f

\* line 146
NextDelay(d, f) == d * f

\* line 130: range(self.max_retries + 1) has a value after att
LoopHasNext(att, mr) == att + 1 < mr + 1

\* the backoff written to self.retry_delay instead of the local delay
WakeSharedDelay(p) ==
    /\ pc[p] = "sleep"
    /\ delay' = [delay EXCEPT ![p] = NextDelay(@, config.backoff_factor)]
    /\ config' = [config EXCEPT !.retry_delay = NextDelay(delay[p], config.backoff_factor)]
    /\ pending' = [pending EXCEPT ![p] = NoExc]
    /\ IF LoopHasNext(attempt[p], config.max_retries)
       THEN /\ attempt' = [attempt EXCEPT ![p] = @ + 1]
            /\ nattempts' = [nattempts EXCEPT ![p] = @ + 1]
            /\ pc' = [pc EXCEPT ![p] = "acquire"]
            /\ UNCHANGED outcome
       ELSE /\ outcome' = [outcome EXCEPT ![p] = Fallback(last_error[p], config.max_retries)]
            /\ pc' = [pc EXCEPT ![p] = "done"]
            /\ UNCHANGED <<attempt, nattempts>>
    /\ UNCHANGED <<env, budget, free, requested, max_rows, last_error,
                   held, stmts, fetched, sleeps>>

\* asyncio.sleep returns: lines 146-147, then the next iteration or the
\* code after the loop
Wake(p) ==
    /\ pc[p] = "sleep"
    /\ delay' = [delay EXCEPT ![p] = NextDelay(@, config.backoff_factor)]
    /\ pending' = [pending EXCEPT ![p] = NoExc]
    /\ IF LoopHasNext(attempt[p], config.max_retries)
       THEN /\ attempt' = [attempt EXCEPT ![p] = @ + 1]
            /\ nattempts' = [nattempts EXCEPT ![p] = @ + 1]
            /\ pc' = [pc EXCEPT ![p] = "acquire"]
            /\ UNCHANGED outcome
       ELSE /\ outcome' = [outcome EXCEPT ![p] = Fallback(last_error[p], config.max_retries)]
            /\ pc' = [pc EXCEPT ![p] = "done"]
            /\ UNCHANGED <<attempt, nattempts>>
    /\ UNCHANGED <<config, env, budget, free, requested, max_rows, last_error,
                   held, stmts, fetched, sleeps>>

\* the caller has its result or its exception; the frame of execute is gone
Return(p) ==
    /\ pc[p] = "done"
    /\ pc' = [pc EXCEPT ![p] = "idle"]
    /\ requested' = [requested EXCEPT ![p] = None]
    /\ max_rows' = [max_rows EXCEPT ![p] = 0]
    /\ attempt' = [attempt EXCEPT ![p] = 0]
    /\ delay' = [delay EXCEPT ![p] = 0]
    /\ last_error' = [last_error EXCEPT ![p] = "None"]
    /\ stmts' = [stmts EXCEPT ![p] = <<>>]
    /\ pending' = [pending EXCEPT ![p] = NoExc]
    /\ fetched' = [fetched EXCEPT ![p] = <<>>]
    /\ sleeps' = [sleeps EXCEPT ![p] = <<>>]
    /\ nattempts' = [nattempts EXCEPT ![p] = 0]
    /\ outcome' = [outcome EXCEPT ![p] = NoOutcome]
    /\ UNCHANGED <<config, env, budget, free, held>>

\* ------------------------------------------------------- specification
Proceed(p) ==
    \/ Acquire(p)
    \/ AcquireFail(p)
    \/ Begin(p)
    \/ SetStatementTimeout(p)
    \/ SetSearchPath(p)
    \/ SetRole(p)
    \/ Fetch(p)
    \/ Unwind(p)
    \/ Wake(p)
    \/ Return(p)

Next ==
    \/ \E p \in Calls : \E mr \in env.args : Execute(p, mr)
    \/ \E p \in Calls : Proceed(p)

Spec == Init /\ [][Next]_vars

\* execute on results of every shape
SerializeSpec == InitSerialize /\ [][Next]_vars

\* the event loop runs every coroutine that can run; the pool wakes a
\* waiting acquire when a connection is free
FairSpec == InitPair /\ [][Next]_vars /\ \A p \in Calls : WF_vars(Proceed(p))

\* ------------------------------------------------------- properties
Holders == { p \in Calls : held[p] }

Transient(code) == code \in RETRYABLE_ERROR_CODES

RECURSIVE Pow(_, _)
Pow(b, e) == IF e = 0 THEN 1 ELSE b * Pow(b, e - 1)

Issued(p, s) == \E i \in 1..Len(stmts[p]) : stmts[p][i] = s

\* a character outside alphanumerics, underscore, comma and space
HasUnsafeChar(s) == \E i \in 1..Len(s) : s[i] \notin AlnumChars \cup {"_", ",", " "}

NoRetryOnTimeout ==
    \A p \in Calls :
        pending[p].kind = "ExecutionTimeoutError"
        => /\ pc[p] \in {"unwind", "done"}
           /\ nattempts[p] = attempt[p] + 1
           /\ Len(sleeps[p]) = attempt[p]
           /\ pc[p] = "done" => outcome[p].kind = "ExecutionTimeoutError"

\* the timeout on attempt 1 of a max_retries = 3 policy
NoRetryOnTimeoutWitness ==
    \E p \in Calls :
        /\ pc[p] = "done"
        /\ config.max_retries = 3
        /\ pending[p].kind = "ExecutionTimeoutError"
        /\ nattempts[p] = 1
        /\ sleeps[p] = <<>>
        /\ outcome[p].kind = "ExecutionTimeoutError"

\* C3. Backoff growth: the k-th sleep of a call lasts
\* retry_delay * backoff_factor^(k-1), and while the call sleeps its delay
\* is still the one it sleeps for (multiplied only afterwards, never capped).
BackoffGrowth ==
    \A p \in Calls :
        /\ \A k \in 1..Len(sleeps[p]) :
               sleeps[p][k] = config.retry_delay * Pow(config.backoff_factor, k - 1)
        /\ pc[p] = "sleep" => delay[p] = sleeps[p][Len(sleeps[p])]

\* initial delay 1, factor 2: the delays 1, 2, 4
BackoffGrowthWitness ==
    \E p \in Calls :
        /\ config.retry_delay = 1
        /\ config.backoff_factor = 2
        /\ sleeps[p] = <<1, 2, 4>>

\* C4 as stated. A search_path with a character outside alphanumerics,
\* underscore, comma and space is rejected with none of SET
\* statement_timeout, SET search_path, SET ROLE and the query sent in that
\* attempt.
RejectedBeforeAnyStatement ==
    \A p \in Calls :
        (HasUnsafeChar(config.safe_search_path) /\ pending[p] = Rejected("search_path"))
        => \A s \in {"SET statement_timeout", "SET search_path", "SET ROLE", "QUERY"} :
               ~Issued(p, s)

\* C4 amended. With such a search_path no attempt sends SET search_path,
\* SET ROLE or the query, and the attempt that is rejected has sent, inside
\* its transaction, SET statement_timeout and nothing else.
RejectedBeforeSearchPath ==
    \A p \in Calls :
        /\ HasUnsafeChar(config.safe_search_path)
           => \A s \in {"SET search_path", "SET ROLE", "QUERY"} : ~Issued(p, s)
        /\ pending[p] = Rejected("search_path")
           => /\ HasUnsafeChar(config.safe_search_path)
              /\ stmts[p] = <<"BEGIN READ ONLY", "SET statement_timeout">>

\* a search_path with a semicolon has been rejected
RejectedBeforeSearchPathWitness ==
    \E p \in Calls :
        /\ config.safe_search_path = <<"a", ";">>
        /\ pending[p] = Rejected("search_path")
        /\ pc[p] = "done"

\* C5 as stated. A session command that failed with a transient code while
\* attempts remain is followed by a sleep and another attempt: the call is
\* not done with that failure unless no attempt remained.
HardeningFailureRetried ==
    \A p \in Calls :
        ( /\ pc[p] = "done"
          /\ pending[p].kind = "DatabaseError"
          /\ Transient(pending[p].code) )
        => attempt[p] >= config.max_retries

\* C6. Guaranteed release: a call that is not inside an attempt (not
\* started, waiting for the pool, sleeping, or finished either way) holds no
\* connection, and every connection is in the pool or held by a call inside
\* an attempt.
GuaranteedRelease ==
    /\ \A p \in Calls : pc[p] \in {"idle", "acquire", "sleep", "done"} => ~held[p]
    /\ free + Cardinality(Holders) = PoolSize

\* two calls finished one after the other on the same connection, one by
\* timeout and one by a database error, and the pool is whole again
GuaranteedReleaseWitness ==
    /\ \A p \in Calls : pc[p] = "done"
    /\ \E p \in Calls : outcome[p].kind = "ExecutionTimeoutError" /\ Issued(p, "QUERY")
    /\ \E p \in Calls : outcome[p].kind = "DatabaseError" /\ Issued(p, "QUERY")
    /\ free = PoolSize

\* C7. Concurrent calls on the shared pool: never more holders than
\* connections, a waiting acquisition proceeds only from a state with a free
\* connection, and every started call finishes.
ConcurrentCallsTerminate ==
    /\ [](Cardinality(Holders) <= PoolSize /\ free >= 0)
    /\ [][\A p \in Calls : (pc[p] = "acquire" /\ pc'[p] # "acquire") => free > 0]_vars
    /\ \A p \in Calls : (pc[p] # "idle") ~> (pc[p] = "done")

\* one call holds the only connection while another waits for it
ConcurrentCallsWitness ==
    \E p, q \in Calls :
        /\ p # q
        /\ held[p]
        /\ pc[q] = "acquire"
        /\ free = 0

\* C8. A call in its backoff sleep holds no connection: the pool and the
\* other calls hold all of them, so a waiting call finds a free connection
\* unless another running attempt has it.
BackoffHoldsNoConnection ==
    \A p \in Calls :
        pc[p] = "sleep"
        => /\ ~held[p]
           /\ free = PoolSize - Cardinality(Holders \ {p})
           /\ \A q \in Calls \ {p} :
                  (pc[q] = "acquire" /\ Cardinality(Holders) < PoolSize)
                  => ENABLED Acquire(q)

\* while one call sleeps, another has run its query on the connection and
\* is about to return its rows
BackoffHoldsNoConnectionWitness ==
    \E p, q \in Calls :
        /\ p # q
        /\ pc[p] = "sleep"
        /\ held[q]
        /\ pc[q] = "unwind"
        /\ pending[q].kind = "Return"

\* C9. Single terminal outcome: a finished call has rows and a count, or
\* an ExecutionTimeoutError, or a DatabaseError, rows only in the first
\* case; and from then on the call does nothing but hand that over.
SingleOutcomeState ==
    \A p \in Calls :
        /\ pc[p] # "done" => outcome[p] = NoOutcome
        /\ pc[p] = "done"
           => /\ outcome[p].kind \in {"ok", "ExecutionTimeoutError", "DatabaseError"}
              /\ outcome[p].rows # None <=> outcome[p].kind = "ok"

SingleOutcomeStep ==
    \A p \in Calls :
        pc[p] = "done"
        => \/ pc'[p] = "idle"
           \/ /\ pc'[p] = "done"
              /\ outcome'[p] = outcome[p]
              /\ nattempts'[p] = nattempts[p]
              /\ sleeps'[p] = sleeps[p]
              /\ stmts'[p] = stmts[p]
              /\ held'[p] = held[p]

SingleTerminalOutcome == []SingleOutcomeState /\ [][SingleOutcomeStep]_vars

\* a call that failed outside the database-error hierarchy is done with a
\* DatabaseError and no rows
SingleTerminalOutcomeWitness ==
    \E p \in Calls :
        /\ pc[p] = "done"
        /\ pending[p].kind = "Exception"
        /\ outcome[p].kind = "DatabaseError"
        /\ outcome[p].rows = None

\* C10. Row limiting: total_count is the number of fetched records; the
\* returned rows are the first min(n, max_rows) fetched records, in order,
\* each serialized.
RowLimiting ==
    \A p \in Calls :
        (pc[p] = "done" /\ outcome[p].kind = "ok")
        => LET n == Len(fetched[p])
               m == max_rows[p]
               rows == outcome[p].rows[1]
           IN /\ outcome[p].total_count = n
              /\ n <= m => Len(rows) = n
              /\ n > m => Len(rows) = m
              /\ \A i \in 1..Len(rows) : rows[i] = serialize_row(fetched[p][i])

\* three records under max_rows = 1
RowLimitingWitness ==
    \E p \in Calls :
        /\ pc[p] = "done"
        /\ outcome[p].kind = "ok"
        /\ Len(fetched[p]) = 3
        /\ max_rows[p] = 1
        /\ Len(outcome[p].rows[1]) = 1

\* C11 as stated. Requested row cap: a successful call whose caller passed
\* max_rows (any integer >= 0, 0 included) runs with that max_rows and
\* returns at most that many rows; the configured default is used only for
\* None.
RequestedRowCap ==
    \A p \in Calls :
        requested[p] # None
        => /\ pc[p] # "idle" => max_rows[p] = requested[p][1]
           /\ (pc[p] = "done" /\ outcome[p].kind = "ok")
              => Len(outcome[p].rows[1]) <= requested[p][1]

\* C12. Permanent errors are not retried: an attempt that failed with a
\* PostgresError whose code is not transient is followed by no sleep and no
\* attempt, however many retries remain; the call is done with DatabaseError.
PermanentNotRetried ==
    \A p \in Calls :
        (pending[p].kind = "PostgresError" /\ ~Transient(pending[p].code))
        => /\ pc[p] \in {"unwind", "done"}
           /\ nattempts[p] = attempt[p] + 1
           /\ Len(sleeps[p]) = attempt[p]
           /\ pc[p] = "done" => /\ outcome[p].kind = "DatabaseError"
                                /\ outcome[p].error_code = pending[p].code

\* a syntax error on the first attempt with every retry left
PermanentNotRetriedWitness ==
    \E p \in Calls :
        /\ pc[p] = "done"
        /\ config.max_retries = 3
        /\ pending[p] = Exc("PostgresError", "42601", "fetch")
        /\ nattempts[p] = 1
        /\ sleeps[p] = <<>>
        /\ outcome[p].kind = "DatabaseError"

\* C13. Non-database errors are not retried: an attempt that failed with
\* an exception that is neither the timeout nor a PostgresError is followed
\* by no sleep and no attempt; the call is done with DatabaseError.
UnexpectedNotRetried ==
    \A p \in Calls :
        pending[p].kind \in {"Exception", "DatabaseError"}
        => /\ pc[p] \in {"unwind", "done"}
           /\ nattempts[p] = attempt[p] + 1
           /\ Len(sleeps[p]) = attempt[p]
           /\ pc[p] = "done" => /\ outcome[p].kind = "DatabaseError"
                                /\ outcome[p].why = "unexpected"

\* a fault outside the database-error hierarchy on the first attempt
UnexpectedNotRetriedWitness ==
    \E p \in Calls :
        /\ pc[p] = "done"
        /\ config.max_retries = 3
        /\ pending[p].kind = "Exception"
        /\ nattempts[p] = 1
        /\ sleeps[p] = <<>>
        /\ outcome[p].why = "unexpected"

\* built only from null, strings, integers, floats, booleans, lists and
\* string-keyed mappings
RECURSIVE IsJSON(_)
IsJSON(x) ==
    \/ x.t \in {"none", "str", "int", "float", "bool"}
    \/ /\ x.t \in {"list", "dict"}
       /\ \A i \in 1..Len(x.items) : IsJSON(x.items[i])

\* C14. Serializer idempotence: a fetched value that is pure JSON comes
\* back unchanged, and every returned value, whatever was fetched, is left
\* unchanged by serializing it again.
SerializerIdempotent ==
    \A p \in Calls :
        (pc[p] = "done" /\ outcome[p].kind = "ok")
        => LET rows == outcome[p].rows[1]
           IN \A i \in 1..Len(rows) : \A k \in DOMAIN rows[i] :
                  /\ IsJSON(fetched[p][i][k]) => rows[i][k] = fetched[p][i][k]
                  /\ IsJSON(rows[i][k])
                  /\ serialize_value(rows[i][k]) = rows[i][k]

\* a pure JSON value nested two deep, a mapping inside a list, came back
SerializerIdempotentWitness ==
    \E p \in Calls :
        /\ pc[p] = "done"
        /\ outcome[p].kind = "ok"
        /\ fetched[p] = <<ValueRow(ListV(<<DictV(<<"k">>, <<IntV(1)>>)>>))>>
        /\ outcome[p].rows[1] = fetched[p]

\* the session commands an attempt must have completed before its query
HardeningCommands ==
    <<"BEGIN READ ONLY", "SET statement_timeout", "SET search_path">>
    \o (IF config.readonly_role # <<>> THEN <<"SET ROLE">> ELSE <<>>)

\* C15. Hardening precedes the query: an attempt sends the query only on
\* the connection it holds, after BEGIN READ ONLY, SET statement_timeout, SET
\* search_path and (with a role configured) SET ROLE, in that order and
\* nothing else; an attempt whose hardening failed or was rejected has sent
\* no query.
HardeningPrecedesQuery ==
    \A p \in Calls :
        /\ pc[p] = "fetch" => (held[p] /\ stmts[p] = HardeningCommands)
        /\ Issued(p, "QUERY") => stmts[p] = HardeningCommands \o <<"QUERY">>
        /\ pending[p].kind = "DatabaseError" => ~Issued(p, "QUERY")

\* with a role configured, the query went out after the three SETs
HardeningPrecedesQueryWitness ==
    \E p \in Calls :
        /\ config.readonly_role = <<"r", "o", "_", "1">>
        /\ stmts[p] = <<"BEGIN READ ONLY", "SET statement_timeout",
                        "SET search_path", "SET ROLE", "QUERY">>
        /\ pending[p].kind = "Return"

\* C16. Transparent recovery: when attempt j succeeds (the earlier ones,
\* if any, having failed with transient codes), the call has made j attempts
\* and j-1 sleeps, j <= max_retries + 1, nothing follows the success, and the
\* call returns that attempt's rows and count with no error.
TransparentRecovery ==
    \A p \in Calls :
        pending[p].kind = "Return"
        => /\ pc[p] \in {"unwind", "done"}
           /\ nattempts[p] = attempt[p] + 1
           /\ nattempts[p] <= config.max_retries + 1
           /\ Len(sleeps[p]) = nattempts[p] - 1
           /\ attempt[p] > 0 => Transient(last_error[p])
           /\ pc[p] = "done"
              => /\ outcome[p].kind = "ok"
                 /\ outcome[p].rows = Some(pending[p].rows)
                 /\ outcome[p].total_count = pending[p].total_count

\* three transient failures, then the fourth attempt returns three rows
TransparentRecoveryWitness ==
    \E p \in Calls :
        /\ pc[p] = "done"
        /\ outcome[p].kind = "ok"
        /\ nattempts[p] = 4
        /\ Len(sleeps[p]) = 3
        /\ outcome[p].total_count = 3

\* a character outside alphanumerics and underscore
HasUnsafeRoleChar(s) == \E i \in 1..Len(s) : s[i] \notin AlnumChars \cup {"_"}

\* the command a rejected setting would have been applied with
Offending(at) == IF at = "search_path" THEN "SET search_path" ELSE "SET ROLE"

ConfigRejected(p) ==
    pending[p].kind = "DatabaseError" /\ pending[p].at \in {"search_path", "readonly_role"}

\* C17 as stated. A search_path or role that fails its check: the offending
\* command and the query are never sent, and the call ends with an error
\* after exactly one attempt, with no sleep.
InvalidConfigOneAttempt ==
    \A p \in Calls :
        (pc[p] = "done" /\ ConfigRejected(p))
        => /\ ~Issued(p, Offending(pending[p].at))
           /\ ~Issued(p, "QUERY")
           /\ outcome[p].kind = "DatabaseError"
           /\ nattempts[p] = 1
           /\ sleeps[p] = <<>>

\* C17 amended. With a malformed search_path (role) no attempt sends SET
\* search_path (SET ROLE) or the query; the attempt in which the check fails
\* is the call's last, with no sleep after it, and the call ends with
\* DatabaseError; it is the only attempt unless earlier attempts failed with
\* transient database errors before they reached the check.
InvalidConfigTerminal ==
    \A p \in Calls :
        /\ HasUnsafeChar(config.safe_search_path)
           => ~Issued(p, "SET search_path") /\ ~Issued(p, "QUERY")
        /\ HasUnsafeRoleChar(config.readonly_role)
           => ~Issued(p, "SET ROLE") /\ ~Issued(p, "QUERY")
        /\ ConfigRejected(p)
           => /\ pc[p] \in {"unwind", "done"}
              /\ nattempts[p] = attempt[p] + 1
              /\ Len(sleeps[p]) = attempt[p]
              /\ last_error[p] = "None" => nattempts[p] = 1
              /\ last_error[p] # "None" => Transient(last_error[p])
              /\ pc[p] = "done" => outcome[p].kind = "DatabaseError"

\* a role with a space was rejected on the first attempt, three retries left
InvalidConfigTerminalWitness ==
    \E p \in Calls :
        /\ pc[p] = "done"
        /\ config.max_retries = 3
        /\ config.readonly_role = <<"r", " ", "o">>
        /\ pending[p] = Rejected("readonly_role")
        /\ nattempts[p] = 1
        /\ outcome[p].kind = "DatabaseError"

FallbackUnreachable ==
    \A p \in Calls :
        /\ outcome[p].why \notin {"fallback", "fallback_generic"}
        /\ pc[p] = "done" => outcome[p].why \in {"return", "timeout", "postgres", "unexpected"}
        /\ pc[p] = "sleep" => attempt[p] < config.max_retries

\* max_retries = 0: the one attempt failed with a transient code and the
\* call raised inside the loop
FallbackUnreachableWitness ==
    \E p \in Calls :
        /\ pc[p] = "done"
        /\ config.max_retries = 0
        /\ pending[p].kind = "PostgresError"
        /\ Transient(pending[p].code)
        /\ outcome[p].why = "postgres"

\* the retry state of one call of execute (lines 127-128 and the loop index)
RetryState(p) == <<attempt[p], delay[p], last_error[p], sleeps[p], nattempts[p]>>

\* C20. Per-call retry state is local: no step of execute changes the
\* executor's configuration; every call, concurrent or successive, starts
\* at attempt 0 with the configured initial delay, its first backoff sleep
\* lasts the configured initial delay, and a step of one call leaves the
\* retry state of every other call as it was.
RetryStateLocal ==
    /\ [](\A p \in Calls :
            /\ (pc[p] \notin {"idle", "done"} /\ sleeps[p] = <<>>)
               => (attempt[p] = 0 /\ nattempts[p] = 1 /\ delay[p] = config.retry_delay)
            /\ sleeps[p] # <<>> => sleeps[p][1] = config.retry_delay
            /\ pc[p] \notin {"idle", "done"}
               => delay[p] = config.retry_delay * Pow(config.backoff_factor, attempt[p]))
    /\ [][/\ config' = config
          /\ \A p, q \in Calls :
               (p # q /\ RetryState(p)' # RetryState(p)) => RetryState(q)' = RetryState(q)]_vars

\* two calls in flight: one already on its second attempt with the grown
\* delay, the other in its first backoff sleep with the configured delay
RetryStateLocalWitness ==
    \E p, q \in Calls :
        /\ p # q
        /\ attempt[p] = 1
        /\ pc[p] \notin {"idle", "done", "sleep"}
        /\ delay[p] = NextDelay(config.retry_delay, config.backoff_factor)
        /\ delay[p] # config.retry_delay
        /\ pc[q] = "sleep"
        /\ attempt[q] = 0
        /\ sleeps[q] = <<config.retry_delay>>

====
